---- MODULE Spec2Model ----
(***************************************************************************)
(* Meeting scheduling engine of the voice agent (src/script.py):           *)
(* MeetingScheduler (store, validator, conflict detector, scheduler) and   *)
(* the VoiceBot.schedule_meeting entry point that calls it.                *)
(*                                                                         *)
(* Time is counted in minutes.  Minute 0 is Monday 2024-01-08 00:00 UTC,   *)
(* so day d has Python weekday d % 7 (Monday = 0).  A datetime object is   *)
(* [wall, tz]: wall-clock minutes and tz = <<>> (naive) or <<offset>>.     *)
(* An ISO-8601 string is [kind, date, hh, mm, tz]; kind = "bad" is a       *)
(* string datetime.fromisoformat rejects.                                  *)
(***************************************************************************)
EXTENDS Integers, Sequences, FiniteSets, TLC

VARIABLES
    now,        \* datetime.datetime.now(UTC), in minutes
    up,         \* up[p]: worker process p has constructed its MeetingScheduler
    meetings,   \* meetings[p]: self.meetings of process p (list of dicts)
    file,       \* content of MEETINGS_FILE: Missing, Empty, Corrupt, Torn(n) or <<"json", list>>
    last,       \* the last VoiceBot.schedule_meeting call of MainThread that has returned
    ncalls,     \* number of requests served (schedule calls and GET /meetings)
    owner,      \* owner[t]: the process request thread t runs in
    pc,         \* pc[t]: where thread t stands in schedule_meeting
    loc,        \* loc[t]: the locals of thread t's call and what it returned
    got,        \* the last GET /meetings response
    conversation_state, \* VoiceBot.conversation_state: call id -> list of messages
    reply,      \* the last /process_speech response
    boot,       \* boot[p]: where process p stands in MeetingScheduler.__init__
                \* ("done": constructed; "again": constructed anew after a stop)
    turn        \* turn[t]: the /process_speech request thread t is serving

vars == <<now, up, meetings, file, last, ncalls, owner, pc, loc,
          got, conversation_state, reply, boot, turn>>

----------------------------------------------------------------------------
(* Bounds of the model *)

MaxCalls == 2
MaxTicks == 1
\* a conversation turn begins only while fewer messages than this are stored
MaxHistory == 4

(* Program constants *)

BUSINESS_START == 9
BUSINESS_END == 17
MINIMUM_NOTICE == 60
MAXIMUM_FUTURE_DAYS == 60
\* mutant: weekend days numbered as isoweekday() numbers them
WEEKEND_DAYS_iso == {6, 7}

WEEKEND_DAYS == {5, 6}

Procs == {1, 2}
MainProc == 1
Threads == {1, 2}

----------------------------------------------------------------------------
(* datetime *)

UTC == <<0>>
Naive == <<>>

DateTime(wall, tz) == [wall |-> wall, tz |-> tz]

\* datetime.fromisoformat: ValueError on a malformed string, else the
\* wall-clock fields with the offset the string carries (if any).
fromisoformat(s) ==
    IF s.kind = "bad"
    THEN [ok |-> FALSE, dt |-> DateTime(0, Naive)]
    ELSE [ok |-> TRUE, dt |-> DateTime(s.date * 1440 + s.hh * 60 + s.mm, s.tz)]

\* datetime.isoformat of a datetime with zero seconds
isoformat(dt) ==
    [kind |-> "iso",
     date |-> dt.wall \div 1440,
     hh   |-> (dt.wall % 1440) \div 60,
     mm   |-> dt.wall % 60,
     tz   |-> dt.tz]

\* strftime('%Y-%m-%d %H:%M')
strftime(dt) == <<dt.wall \div 1440, (dt.wall % 1440) \div 60, dt.wall % 60>>

\* .replace(tzinfo=self.timezone): wall-clock fields kept, tzinfo overwritten
replace_tzinfo(dt) == DateTime(dt.wall, UTC)

\* dt + datetime.timedelta(minutes=m)
plus_minutes(dt, m) == DateTime(dt.wall + m, dt.tz)

hour(dt) == (dt.wall % 1440) \div 60
weekday(dt) == (dt.wall \div 1440) % 7

\* the instant an aware datetime denotes, in UTC minutes
Instant(dt) == dt.wall - dt.tz[1]

\* a < b on aware datetimes
Before(a, b) == Instant(a) < Instant(b)

----------------------------------------------------------------------------
(* MeetingScheduler *)

MsgNotice == "Meeting must be scheduled at least 1 hour in advance"
MsgHorizon == "Cannot schedule meetings more than 60 days in advance"
MsgHours == "Meetings can only be scheduled during business hours (9 AM - 5 PM)"
MsgEnd == "Meeting would extend beyond business hours"
MsgWeekend == "Meetings cannot be scheduled on weekends"
MsgValid == "Time slot is valid"
MsgConflict == "Time slot is not available"
MsgScheduled == "Meeting scheduled successfully for "
MsgFailed == "Failed to schedule meeting: "

\* mutant: a start exactly one hour ahead is refused (<= for <)
is_valid_strict_notice(start_datetime, end_datetime, t) ==
    LET nowdt == DateTime(t, UTC) IN
    IF ~Before(plus_minutes(nowdt, MINIMUM_NOTICE), start_datetime)
    THEN <<FALSE, MsgNotice>>
    ELSE IF Before(plus_minutes(nowdt, MAXIMUM_FUTURE_DAYS * 1440), start_datetime)
    THEN <<FALSE, MsgHorizon>>
    ELSE IF ~(BUSINESS_START <= hour(start_datetime)
              /\ hour(start_datetime) < BUSINESS_END)
    THEN <<FALSE, MsgHours>>
    ELSE IF hour(end_datetime) >= BUSINESS_END
    THEN <<FALSE, MsgEnd>>
    ELSE IF weekday(start_datetime) \in WEEKEND_DAYS
    THEN <<FALSE, MsgWeekend>>
    ELSE <<TRUE, MsgValid>>

\* mutant: the weekend rule is tested before the business-hour rules
is_valid_weekend_first(start_datetime, end_datetime, t) ==
    LET nowdt == DateTime(t, UTC) IN
    IF Before(start_datetime, plus_minutes(nowdt, MINIMUM_NOTICE))
    THEN <<FALSE, MsgNotice>>
    ELSE IF Before(plus_minutes(nowdt, MAXIMUM_FUTURE_DAYS * 1440), start_datetime)
    THEN <<FALSE, MsgHorizon>>
    ELSE IF weekday(start_datetime) \in WEEKEND_DAYS
    THEN <<FALSE, MsgWeekend>>
    ELSE IF ~(BUSINESS_START <= hour(start_datetime)
              /\ hour(start_datetime) < BUSINESS_END)
    THEN <<FALSE, MsgHours>>
    ELSE IF hour(end_datetime) >= BUSINESS_END
    THEN <<FALSE, MsgEnd>>
    ELSE <<TRUE, MsgValid>>

\* mutant: an end in hour 17 is let through (> for >=)
is_valid_end_hour_lax(start_datetime, end_datetime, t) ==
    LET nowdt == DateTime(t, UTC) IN
    IF Before(start_datetime, plus_minutes(nowdt, MINIMUM_NOTICE))
    THEN <<FALSE, MsgNotice>>
    ELSE IF Before(plus_minutes(nowdt, MAXIMUM_FUTURE_DAYS * 1440), start_datetime)
    THEN <<FALSE, MsgHorizon>>
    ELSE IF ~(BUSINESS_START <= hour(start_datetime)
              /\ hour(start_datetime) < BUSINESS_END)
    THEN <<FALSE, MsgHours>>
    ELSE IF hour(end_datetime) > BUSINESS_END
    THEN <<FALSE, MsgEnd>>
    ELSE IF weekday(start_datetime) \in WEEKEND_DAYS
    THEN <<FALSE, MsgWeekend>>
    ELSE <<TRUE, MsgValid>>

is_valid_meeting_time(start_datetime, end_datetime, t) ==
    LET nowdt == DateTime(t, UTC) IN
    IF Before(start_datetime, plus_minutes(nowdt, MINIMUM_NOTICE))
    THEN <<FALSE, MsgNotice>>
    ELSE IF Before(plus_minutes(nowdt, MAXIMUM_FUTURE_DAYS * 1440), start_datetime)
    THEN <<FALSE, MsgHorizon>>
    ELSE IF ~(BUSINESS_START <= hour(start_datetime)
              /\ hour(start_datetime) < BUSINESS_END)
    THEN <<FALSE, MsgHours>>
    ELSE IF hour(end_datetime) >= BUSINESS_END
    THEN <<FALSE, MsgEnd>>
    ELSE IF weekday(start_datetime) \in WEEKEND_DAYS
    THEN <<FALSE, MsgWeekend>>
    ELSE <<TRUE, MsgValid>>

\* mutant: only a candidate that starts inside the stored meeting conflicts
conflicts_with_start_inside(meeting, start_datetime, end_datetime) ==
    LET meeting_start == fromisoformat(meeting.start).dt
        meeting_end == fromisoformat(meeting.end).dt
    IN Before(start_datetime, meeting_end) /\ ~Before(start_datetime, meeting_start)

\* mutant: closed intervals (<= and >= for < and >)
conflicts_with_closed(meeting, start_datetime, end_datetime) ==
    LET meeting_start == fromisoformat(meeting.start).dt
        meeting_end == fromisoformat(meeting.end).dt
    IN ~Before(meeting_end, start_datetime) /\ ~Before(end_datetime, meeting_start)

\* the overlap test of one stored meeting against the candidate
conflicts_with(meeting, start_datetime, end_datetime) ==
    LET meeting_start == fromisoformat(meeting.start).dt
        meeting_end == fromisoformat(meeting.end).dt
    IN Before(start_datetime, meeting_end) /\ Before(meeting_start, end_datetime)

check_conflicts(ms, start_datetime, end_datetime) ==
    \E i \in 1..Len(ms) : conflicts_with(ms[i], start_datetime, end_datetime)

----------------------------------------------------------------------------
(* Durable storage *)

Missing == <<"missing">>
Corrupt == <<"corrupt">>

\* the file just truncated by open(MEETINGS_FILE, 'w'): no bytes, no JSON
Empty == <<"empty">>

\* the text left when a shorter text was written over the start of a longer
\* one of n records: as long as that one, and no JSON document
Torn(n) == <<"torn", n>>

\* json.load raises on this content
Unreadable(f) == f = Corrupt \/ f = Empty \/ f[1] = "torn"

\* json.dump of one meeting dict: a JSON object, its members in the dict's
\* insertion order; the strings and the list of strings are written as such
json_dump_meeting(m) ==
    << <<"summary", m.summary>>, <<"start", m.start>>,
       <<"end", m.end>>, <<"attendees", m.attendees>> >>

\* json.dump(self.meetings, f, indent=2): a JSON array of objects
json_dump(ms) == [i \in 1..Len(ms) |-> json_dump_meeting(ms[i])]

\* the file holding a JSON document
Json(ms) == <<"json", json_dump(ms)>>

\* the value of member k of a JSON object
json_member(obj, k) == obj[CHOOSE i \in 1..Len(obj) : obj[i][1] = k][2]

\* json.load of one object: a dict with the object's members
json_load_meeting(obj) ==
    [summary |-> json_member(obj, "summary"),
     start |-> json_member(obj, "start"),
     end |-> json_member(obj, "end"),
     attendees |-> json_member(obj, "attendees")]

\* json.load(f) of a JSON array of objects
json_load(text) == [i \in 1..Len(text) |-> json_load_meeting(text[i])]

\* mutant: the stored list is not read back
load_meetings_empty(f) == <<>>

\* load_meetings: the list read from an existing file, [] for a missing one
load_meetings(f) == IF f = Missing THEN <<>> ELSE json_load(f[2])

\* The ways open(MEETINGS_FILE, 'w') + json.dump can end: "ok"; "open" (open
\* raises OSError, the file is untouched); "dump" (the file was truncated by
\* open and json.dump raised TypeError part-way on an unserialisable value);
\* "write" (the file was truncated by open and the write raised OSError: full
\* disk, file size limit).  The last two leave text that is no JSON document.
WriteOutcomes == {"ok", "open", "dump", "write"}

\* the list [] always serialises: json.dump cannot raise on it
StartupWriteOutcomes == WriteOutcomes \ {"dump"}

save_meetings(ms, f, io) ==
    IF io = "ok" THEN [exc |-> "", file |-> Json(ms)]
    ELSE IF io = "open" THEN [exc |-> "OSError", file |-> f]
    ELSE IF io = "dump" THEN [exc |-> "TypeError", file |-> Corrupt]
    ELSE [exc |-> "OSError", file |-> Corrupt]

\* save_meetings statement by statement, for calls that overlap.
\* open(MEETINGS_FILE, 'w') truncates the file:
open_w(f) == Empty

\* Leaving the with block writes the buffered text at offset 0 of the file as
\* it is then.  The records of overlapping calls all serialise to the same
\* number of bytes, so a text of fewer records is the shorter text.  A shorter
\* text written over a longer one leaves the longer one's tail: no JSON.
\* (Corrupt, the text of unknown length a failed write leaves, does not occur
\* where calls overlap: writes succeed there.)
flush(buf, f) ==
    IF f = Empty \/ f = Missing THEN Json(buf)
    ELSE IF f = Corrupt THEN Corrupt
    ELSE IF f[1] = "torn" THEN (IF f[2] <= Len(buf) THEN Json(buf) ELSE f)
    ELSE IF Len(f[2]) <= Len(buf) THEN Json(buf)
    ELSE Torn(Len(f[2]))

----------------------------------------------------------------------------
(* Results of a call: what it returns, or the exception that leaves it *)

Returned(ms, f, success, message, at, error) ==
    [meetings |-> ms, file |-> f, exc |-> "",
     ret |-> [success |-> success, message |-> message, at |-> at, error |-> error]]

Raised(ms, f, exc) ==
    [meetings |-> ms, file |-> f, exc |-> exc,
     ret |-> [success |-> FALSE, message |-> "", at |-> <<>>, error |-> ""]]

\* MeetingScheduler.schedule_meeting: except Exception as e:
\*     return False, f"Failed to schedule meeting: {str(e)}"
scheduler_except(r) ==
    IF r.exc = "" THEN r
    ELSE Returned(r.meetings, r.file, FALSE, MsgFailed, <<>>, r.exc)

new_meeting(summary, start_datetime, end_datetime, attendees) ==
    [summary |-> summary,
     start |-> isoformat(start_datetime),
     end |-> isoformat(end_datetime),
     attendees |-> attendees]

\* mutant: the meeting is inserted at the front of the list
schedule_try_insert_front(ms, f, summary, start_time, duration_minutes, attendees, t, io) ==
    LET parsed == fromisoformat(start_time) IN
    IF ~parsed.ok THEN Raised(ms, f, "ValueError")
    ELSE
    LET start_datetime == replace_tzinfo(parsed.dt)
        end_datetime == plus_minutes(start_datetime, duration_minutes)
        valid == is_valid_meeting_time(start_datetime, end_datetime, t)
    IN
    IF ~valid[1] THEN Returned(ms, f, FALSE, valid[2], <<>>, "")
    ELSE IF check_conflicts(ms, start_datetime, end_datetime)
    THEN Returned(ms, f, FALSE, MsgConflict, <<>>, "")
    ELSE
    LET appended == <<new_meeting(summary, start_datetime, end_datetime, attendees)>> \o ms
        saved == save_meetings(appended, f, io)
    IN
    IF saved.exc # "" THEN Raised(appended, saved.file, saved.exc)
    ELSE Returned(appended, saved.file, TRUE, MsgScheduled, strftime(start_datetime), "")

\* the try block of MeetingScheduler.schedule_meeting
schedule_try(ms, f, summary, start_time, duration_minutes, attendees, t, io) ==
    LET parsed == fromisoformat(start_time) IN
    IF ~parsed.ok THEN Raised(ms, f, "ValueError")
    ELSE
    LET start_datetime == replace_tzinfo(parsed.dt)
        end_datetime == plus_minutes(start_datetime, duration_minutes)
        valid == is_valid_meeting_time(start_datetime, end_datetime, t)
    IN
    IF ~valid[1] THEN Returned(ms, f, FALSE, valid[2], <<>>, "")
    ELSE IF check_conflicts(ms, start_datetime, end_datetime)
    THEN Returned(ms, f, FALSE, MsgConflict, <<>>, "")
    ELSE
    LET appended == Append(ms, new_meeting(summary, start_datetime, end_datetime, attendees))
        saved == save_meetings(appended, f, io)
    IN
    IF saved.exc # "" THEN Raised(appended, saved.file, saved.exc)
    ELSE Returned(appended, saved.file, TRUE, MsgScheduled, strftime(start_datetime), "")

MeetingScheduler_schedule_meeting(ms, f, summary, start_time, duration_minutes, attendees, t, io) ==
    scheduler_except(
        schedule_try(ms, f, summary, start_time, duration_minutes, attendees, t, io))

----------------------------------------------------------------------------
(* VoiceBot.schedule_meeting(details).  details is a dict: keys is the set of *)
(* keys it has; the fields of absent keys are not read.                       *)

details_duration(details) ==
    IF "duration" \in details.keys THEN details.duration ELSE 60

details_attendees(details) ==
    IF "attendees" \in details.keys THEN details.attendees ELSE <<>>

VoiceBot_try(ms, f, details, t, io) ==
    IF "title" \notin details.keys THEN Raised(ms, f, "KeyError")
    ELSE IF "datetime" \notin details.keys THEN Raised(ms, f, "KeyError")
    ELSE MeetingScheduler_schedule_meeting(ms, f, details.title, details.datetime,
             details_duration(details), details_attendees(details), t, io)

\* mutant: no except clause
voicebot_no_except(r) == r

\* VoiceBot.schedule_meeting: except Exception as e:
\*     return False, f"Failed to schedule meeting: {str(e)}"
voicebot_except(r) ==
    IF r.exc = "" THEN r
    ELSE Returned(r.meetings, r.file, FALSE, MsgFailed, <<>>, r.exc)

VoiceBot_schedule_meeting(ms, f, details, t, io) ==
    voicebot_except(VoiceBot_try(ms, f, details, t, io))

----------------------------------------------------------------------------
(* Inputs *)

Iso(date, hh, mm, tz) == [kind |-> "iso", date |-> date, hh |-> hh, mm |-> mm, tz |-> tz]
BadIso == [kind |-> "bad", date |-> 0, hh |-> 0, mm |-> 0, tz |-> Naive]

AllKeys == {"title", "datetime", "duration", "attendees"}

Details(keys, title, dt, duration, attendees) ==
    [keys |-> keys, title |-> title, datetime |-> dt,
     duration |-> duration, attendees |-> attendees]

Sync(date, hh, mm, duration) ==
    Details(AllKeys, "Sync", Iso(date, hh, mm, Naive), duration, <<>>)

\* Requests around Monday 2024-01-08: the business-hour bounds, meetings that
\* overlap, touch or lie inside one another, durations of zero and below,
\* the weekends before and after, the 60-day horizon, and malformed requests.
Requests ==
    {Sync(0, 8, 30, 30), Sync(0, 9, 0, 60), Sync(0, 9, 0, -30),
     Sync(0, 10, 0, 60), Sync(0, 10, 0, 0), Sync(0, 10, 30, 60), Sync(0, 10, 30, 0),
     Sync(0, 11, 0, 60), Sync(0, 11, 0, -30), Sync(0, 16, 30, 30), Sync(0, 16, 30, 0),
     Sync(0, 17, 0, 30), Sync(0, 10, 0, 1440),
     Sync(-2, 10, 0, 30), Sync(5, 10, 0, 30), Sync(5, 16, 30, 30), Sync(5, 18, 0, 30),
     Sync(6, 10, 0, 60), Sync(60, 9, 0, 30), Sync(61, 10, 0, 30)}
    \cup {Details({"title", "datetime"}, "Sync", Iso(0, 10, 30, Naive), 0, <<>>),
          Details(AllKeys, "Demo", Iso(0, 11, 0, Naive), 30, <<"ann">>),
          Details(AllKeys, "Sync", Iso(0, 15, 0, <<300>>), 30, <<>>),
          Details(AllKeys, "Sync", BadIso, 30, <<>>),
          Details({"datetime", "duration"}, "", Iso(0, 10, 0, Naive), 30, <<>>),
          Details({"title"}, "Sync", BadIso, 0, <<>>)}

----------------------------------------------------------------------------
(* State machine *)

NowStart == 8 * 60

NoRet == [success |-> FALSE, message |-> "", at |-> <<>>, error |-> ""]

NoLocals ==
    [details |-> Details({}, "", BadIso, 0, <<>>),
     start_datetime |-> DateTime(0, UTC), end_datetime |-> DateTime(0, UTC),
     passed |-> FALSE, buf |-> <<>>, ret |-> NoRet,
     at |-> 0, pre |-> <<>>, prefile |-> Missing]

NoCall ==
    [called |-> FALSE, proc |-> MainProc, details |-> Details({}, "", BadIso, 0, <<>>),
     at |-> 0, pre |-> <<>>, prefile |-> Missing, exc |-> "",
     ret |-> [success |-> FALSE, message |-> "", at |-> <<>>, error |-> ""]]

\* no /process_speech request is being served by the thread
NoTurn ==
    [pc |-> "idle", call_sid |-> "", speech_result |-> "", aliased |-> FALSE,
     conversation |-> <<>>, ai_response |-> "", intent |-> ""]

\* no GET /meetings answered yet
NoGet == [called |-> FALSE, status |-> 0, body |-> <<>>]

\* the call ids Twilio sends; "" is a request without CallSid
CallSids == {"CA1", "CA2"}

\* no /process_speech answered yet
NoReply == [status |-> 0, error |-> "", play |-> FALSE, say |-> "", intent |-> ""]

Init ==
    /\ now = NowStart
    /\ up = [p \in Procs |-> FALSE]
    /\ meetings = [p \in Procs |-> <<>>]
    /\ file \in {Missing, Json(<<>>)}
    /\ last = NoCall
    /\ ncalls = 0
    /\ owner = [t \in Threads |-> MainProc]
    /\ pc = [t \in Threads |-> "idle"]
    /\ loc = [t \in Threads |-> NoLocals]
    /\ got = NoGet
    /\ conversation_state = [c \in CallSids |-> <<>>]
    /\ reply = NoReply
    /\ boot = [p \in Procs |-> "new"]
    /\ turn = [t \in Threads |-> NoTurn]

\* the request thread whose schedule calls are made one after the other
MainThread == 1

\* MeetingScheduler.__init__ -> load_meetings, the write of a missing file
\* ending as io says.  An exception leaves the constructor: no process.
Startup(p, io) ==
    /\ ~up[p]
    /\ ~Unreadable(file)
    /\ IF file # Missing
       THEN /\ meetings' = [meetings EXCEPT ![p] = load_meetings(file)]
            /\ up' = [up EXCEPT ![p] = TRUE]
            /\ file' = file
       ELSE LET saved == save_meetings(<<>>, file, io) IN
            /\ meetings' = [meetings EXCEPT ![p] = <<>>]
            /\ up' = [up EXCEPT ![p] = (saved.exc = "")]
            /\ file' = saved.file
    /\ boot' = [boot EXCEPT ![p] = IF up'[p] THEN "done" ELSE @]
    /\ UNCHANGED <<now, last, ncalls, owner, pc, loc, got, conversation_state, reply, turn>>

\* Process p is stopped between requests and started again: bot = VoiceBot()
\* (line 189) runs anew, the conversations are gone and load_meetings reads
\* the file the earlier run of the process left.  json.load raising leaves
\* the constructor: no process.
Restart(p) ==
    /\ up[p]
    /\ pc[MainThread] = "idle"
    /\ \A t \in Threads : turn[t].pc = "idle"
    /\ IF Unreadable(file)
       THEN /\ meetings' = [meetings EXCEPT ![p] = <<>>]
            /\ up' = [up EXCEPT ![p] = FALSE]
            /\ boot' = [boot EXCEPT ![p] = "new"]
       ELSE /\ meetings' = [meetings EXCEPT ![p] = load_meetings(file)]
            /\ up' = up
            /\ boot' = [boot EXCEPT ![p] = "again"]
    /\ conversation_state' = [c \in CallSids |-> <<>>]
    /\ UNCHANGED <<now, file, last, ncalls, owner, pc, loc, got, reply, turn>>

\* One VoiceBot.schedule_meeting(details) call of process p, up to the point
\* where it returns or, when it gets as far as save_meetings and
\* open(MEETINGS_FILE, 'w') succeeds (io # "open"), up to that open: the
\* meeting is appended (line 159), the file is truncated (line 115) and the
\* text reaches the file only when the with block is left (ScheduleReturn).
\* Other requests are answered in between.
Schedule(p, details, io) ==
    /\ up[p]
    /\ ncalls < MaxCalls
    /\ pc[MainThread] = "idle"
    /\ LET r == VoiceBot_schedule_meeting(meetings[p], file, details, now, io) IN
       IF io # "open" /\ r.meetings # meetings[p]
       THEN /\ meetings' = [meetings EXCEPT ![p] = r.meetings]
            /\ file' = open_w(file)
            /\ pc' = [pc EXCEPT ![MainThread] = "write"]
            /\ loc' = [loc EXCEPT ![MainThread] =
                           [NoLocals EXCEPT !.details = details, !.passed = TRUE,
                                            !.at = now, !.pre = meetings[p],
                                            !.prefile = file]]
            /\ last' = last
       ELSE /\ meetings' = [meetings EXCEPT ![p] = r.meetings]
            /\ file' = r.file
            /\ last' = [called |-> TRUE, proc |-> p, details |-> details, at |-> now,
                        pre |-> meetings[p], prefile |-> file,
                        exc |-> r.exc, ret |-> r.ret]
            /\ UNCHANGED <<pc, loc>>
    /\ ncalls' = ncalls + 1
    /\ UNCHANGED <<now, up, owner, got, conversation_state, reply, boot, turn>>

\* The rest of that call: json.dump and the end of the with block, ending as
\* io says, then the return of schedule_meeting (line 161 or the except
\* clause of line 162).
ScheduleReturn(p, io) ==
    /\ pc[MainThread] = "write"
    /\ io # "open"
    /\ LET l == loc[MainThread]
           r == VoiceBot_schedule_meeting(l.pre, l.prefile, l.details, l.at, io)
       IN /\ meetings' = [meetings EXCEPT ![p] = r.meetings]
          /\ file' = r.file
          /\ last' = [called |-> TRUE, proc |-> p, details |-> l.details, at |-> l.at,
                      pre |-> l.pre, prefile |-> l.prefile,
                      exc |-> r.exc, ret |-> r.ret]
    /\ pc' = [pc EXCEPT ![MainThread] = "idle"]
    /\ loc' = [loc EXCEPT ![MainThread] = NoLocals]
    /\ UNCHANGED <<now, up, ncalls, owner, got, conversation_state, reply, boot, turn>>

\* get_meetings: the list read from MEETINGS_FILE, [] when there is no
\* file, and the 500 error response when reading it raises
get_meetings(f) ==
    IF f = Missing THEN [called |-> TRUE, status |-> 200, body |-> <<>>]
    ELSE IF Unreadable(f) THEN [called |-> TRUE, status |-> 500, body |-> <<>>]
    ELSE [called |-> TRUE, status |-> 200, body |-> json_load(f[2])]

\* GET /meetings served by process p
GetMeetings(p) ==
    /\ up[p]
    /\ ncalls < MaxCalls
    /\ got' = get_meetings(file)
    /\ ncalls' = ncalls + 1
    /\ UNCHANGED <<now, up, meetings, file, last, owner, pc, loc,
                   conversation_state, reply, boot, turn>>

\* the clock advances
Tick ==
    /\ now < NowStart + MaxTicks * 90
    /\ now' = now + 90
    /\ UNCHANGED <<up, meetings, file, last, ncalls, owner, pc, loc, got, conversation_state, reply, boot, turn>>

\* One process, reliable storage
Next ==
    \/ Startup(MainProc, "ok")
    \/ \E d \in Requests : Schedule(MainProc, d, "ok")
    \/ ScheduleReturn(MainProc, "ok")
    \/ GetMeetings(MainProc)
    \/ Restart(MainProc)
    \/ Tick

Spec == Init /\ [][Next]_vars

\* One process, storage writes may fail
NextIO ==
    \/ \E io \in StartupWriteOutcomes : Startup(MainProc, io)
    \/ \E d \in Requests, io \in {"ok", "open"} : Schedule(MainProc, d, io)
    \/ \E io \in WriteOutcomes \ {"open"} : ScheduleReturn(MainProc, io)
    \/ GetMeetings(MainProc)
    \/ Tick

SpecIO == Init /\ [][NextIO]_vars

----------------------------------------------------------------------------
(* Concurrent calls.  The code takes no lock: a call of thread t, running in  *)
(* process owner[t], can be overtaken between its statements.  Threads of one *)
(* process share self.meetings; processes share only MEETINGS_FILE.           *)

ConcRequests ==
    {Sync(0, 10, 0, 60), Sync(0, 10, 30, 60), Sync(0, 11, 0, 60),
     Sync(5, 10, 0, 30), Details(AllKeys, "Sync", BadIso, 30, <<>>)}

\* both threads in one process, or one thread in each of two processes
Placements == {[t \in Threads |-> MainProc], [t \in Threads |-> t]}

InitConc ==
    /\ now = NowStart
    /\ up = [p \in Procs |-> FALSE]
    /\ meetings = [p \in Procs |-> <<>>]
    /\ file \in {Missing, Json(<<>>)}
    /\ last = NoCall
    /\ ncalls = 0
    /\ owner \in Placements
    /\ pc = [t \in Threads |-> "idle"]
    /\ loc = [t \in Threads |-> NoLocals]
    /\ got = NoGet
    /\ conversation_state = [c \in CallSids |-> <<>>]
    /\ reply = NoReply
    /\ boot = [p \in Procs |-> "new"]
    /\ turn = [t \in Threads |-> NoTurn]

\* schedule_meeting up to and including is_valid_meeting_time (lines 88-147).
\* Nothing shared is read there, so the call fails before the conflict check
\* exactly when it fails against an empty list, and with the same result.
Begin(t, details) ==
    /\ pc[t] \in {"idle", "done"}
    /\ up[owner[t]]
    /\ ncalls < MaxCalls
    /\ LET r == VoiceBot_schedule_meeting(<<>>, file, details, now, "ok")
           parsed == fromisoformat(details.datetime)
           start_datetime == replace_tzinfo(parsed.dt)
           end_datetime == plus_minutes(start_datetime, details_duration(details))
       IN IF r.ret.success
          THEN /\ pc' = [pc EXCEPT ![t] = "check"]
               /\ loc' = [loc EXCEPT ![t] =
                              [details |-> details, start_datetime |-> start_datetime,
                               end_datetime |-> end_datetime, passed |-> FALSE,
                               buf |-> <<>>, ret |-> NoRet,
                               at |-> now, pre |-> <<>>, prefile |-> Missing]]
          ELSE /\ pc' = [pc EXCEPT ![t] = "done"]
               /\ loc' = [loc EXCEPT ![t] =
                              [NoLocals EXCEPT !.details = details, !.ret = r.ret]]
    /\ ncalls' = ncalls + 1
    /\ UNCHANGED <<now, up, meetings, file, last, owner, got, conversation_state, reply, boot, turn>>

\* if self.check_conflicts(...): return False, "Time slot is not available"
Check(t) ==
    /\ pc[t] = "check"
    /\ IF check_conflicts(meetings[owner[t]], loc[t].start_datetime, loc[t].end_datetime)
       THEN /\ pc' = [pc EXCEPT ![t] = "done"]
            /\ loc' = [loc EXCEPT ![t].ret =
                           [success |-> FALSE, message |-> MsgConflict,
                            at |-> <<>>, error |-> ""]]
       ELSE /\ pc' = [pc EXCEPT ![t] = "append"]
            /\ loc' = [loc EXCEPT ![t].passed = TRUE]
    /\ UNCHANGED <<now, up, meetings, file, last, ncalls, owner, got, conversation_state, reply, boot, turn>>

thread_meeting(t) ==
    new_meeting(loc[t].details.title, loc[t].start_datetime, loc[t].end_datetime,
                details_attendees(loc[t].details))

\* mutant: the list is replaced instead of appended to
AppendStep_overwrite(t) ==
    /\ pc[t] = "append"
    /\ meetings' = [meetings EXCEPT ![owner[t]] = <<thread_meeting(t)>>]
    /\ pc' = [pc EXCEPT ![t] = "save"]
    /\ UNCHANGED <<now, up, file, last, ncalls, owner, loc, got, conversation_state, reply, boot, turn>>

\* self.meetings.append(meeting)
AppendStep(t) ==
    /\ pc[t] = "append"
    /\ meetings' = [meetings EXCEPT ![owner[t]] = Append(@, thread_meeting(t))]
    /\ pc' = [pc EXCEPT ![t] = "save"]
    /\ UNCHANGED <<now, up, file, last, ncalls, owner, loc, got, conversation_state, reply, boot, turn>>

\* self.save_meetings(), first statement: open(MEETINGS_FILE, 'w')
SaveOpen(t) ==
    /\ pc[t] = "save"
    /\ file' = open_w(file)
    /\ pc' = [pc EXCEPT ![t] = "dump"]
    /\ UNCHANGED <<now, up, meetings, last, ncalls, owner, loc, got, conversation_state, reply, boot, turn>>

\* json.dump(self.meetings, f, indent=2): the list as it stands now goes into
\* the buffer of the file object
SaveDump(t) ==
    /\ pc[t] = "dump"
    /\ loc' = [loc EXCEPT ![t].buf = meetings[owner[t]]]
    /\ pc' = [pc EXCEPT ![t] = "flush"]
    /\ UNCHANGED <<now, up, meetings, file, last, ncalls, owner, got, conversation_state, reply, boot, turn>>

\* leaving the with block writes the buffer; then
\* return True, "Meeting scheduled successfully for ..."
SaveFlush(t) ==
    /\ pc[t] = "flush"
    /\ file' = flush(loc[t].buf, file)
    /\ pc' = [pc EXCEPT ![t] = "done"]
    /\ loc' = [loc EXCEPT ![t].ret =
                   [success |-> TRUE, message |-> MsgScheduled,
                    at |-> strftime(loc[t].start_datetime), error |-> ""]]
    /\ UNCHANGED <<now, up, meetings, last, ncalls, owner, got, conversation_state, reply, boot, turn>>

\* MeetingScheduler.__init__ of process p, statement by statement.
\* if os.path.exists(MEETINGS_FILE):
StartExists(p) ==
    /\ boot[p] = "new"
    /\ boot' = [boot EXCEPT ![p] = IF file # Missing THEN "load" ELSE "create"]
    /\ UNCHANGED <<now, up, meetings, file, last, ncalls, owner, pc, loc, got, conversation_state, reply, turn>>

\* with open(MEETINGS_FILE, 'r') as f: self.meetings = json.load(f)
\* json.load raises on a file that is no JSON document: the constructor is
\* left by the exception and the process has to be started again.
StartLoad(p) ==
    /\ boot[p] = "load"
    /\ IF Unreadable(file)
       THEN /\ boot' = [boot EXCEPT ![p] = "new"]
            /\ UNCHANGED <<up, meetings>>
       ELSE /\ meetings' = [meetings EXCEPT ![p] = load_meetings(file)]
            /\ up' = [up EXCEPT ![p] = TRUE]
            /\ boot' = [boot EXCEPT ![p] = "done"]
    /\ UNCHANGED <<now, file, last, ncalls, owner, pc, loc, got, conversation_state, reply, turn>>

\* self.meetings = []; save_meetings: open(MEETINGS_FILE, 'w')
StartOpen(p) ==
    /\ boot[p] = "create"
    /\ meetings' = [meetings EXCEPT ![p] = <<>>]
    /\ file' = open_w(file)
    /\ boot' = [boot EXCEPT ![p] = "flush"]
    /\ UNCHANGED <<now, up, last, ncalls, owner, pc, loc, got, conversation_state, reply, turn>>

\* json.dump([], f, indent=2) and leaving the with block: "[]" is written
StartFlush(p) ==
    /\ boot[p] = "flush"
    /\ file' = flush(meetings[p], file)
    /\ up' = [up EXCEPT ![p] = TRUE]
    /\ boot' = [boot EXCEPT ![p] = "done"]
    /\ UNCHANGED <<now, meetings, last, ncalls, owner, pc, loc, got, conversation_state, reply, turn>>

NextConc ==
    \/ \E p \in Procs : StartExists(p)
    \/ \E p \in Procs : StartLoad(p)
    \/ \E p \in Procs : StartOpen(p)
    \/ \E p \in Procs : StartFlush(p)
    \/ \E t \in Threads, d \in ConcRequests : Begin(t, d)
    \/ \E t \in Threads : Check(t)
    \/ \E t \in Threads : AppendStep(t)
    \/ \E t \in Threads : SaveOpen(t)
    \/ \E t \in Threads : SaveDump(t)
    \/ \E t \in Threads : SaveFlush(t)
    \/ \E p \in Procs : GetMeetings(p)

SpecConc == InitConc /\ [][NextConc]_vars

----------------------------------------------------------------------------
(* Conversation turns: POST /process_speech and VoiceBot.get_ai_response *)

\* Outcome of a completion request that raises the library's OpenAIError.
\* The module calls openai.OpenAI(...) (line 46), the client of openai 1.0 and
\* later, and that library has no attribute "error": evaluating the clause
\* "except openai.error.OpenAIError" (lines 60 and 82) raises AttributeError,
\* nothing is caught and the exception leaves the method.
AIError == "OpenAIError"

\* what the caller said; "" is a request without the field
Texts == {"hi", "book"}

\* contents the intent completion may return, or AIError
IntentOutcomes == {" Scheduling ", AIError}

\* contents the reply completion may return, or AIError
Completions == {" hello ", AIError}

\* str.strip() on the contents above
strip(s) ==
    CASE s = " hello " -> "hello"
      [] s = " Scheduling " -> "Scheduling"
      [] OTHER -> s

\* str.lower() on the contents above
lower(s) ==
    CASE s = "Scheduling" -> "scheduling"
      [] s = " Scheduling " -> " scheduling "
      [] OTHER -> s

Message(role, content) == [role |-> role, content |-> content]

detect_intent(detected) ==
    IF detected = AIError THEN [exc |-> "AttributeError", intent |-> ""]
    ELSE [exc |-> "", intent |-> lower(strip(detected))]

\* get_ai_response from line 69 on, with the intent detect_intent returned.
\* conversation is the list of line 66 with the user message of line 67
\* appended, as it stands when the reply completion has answered.
get_ai_response(conversation, intent, completed) ==
    IF completed = AIError
    THEN [exc |-> "AttributeError", conversation |-> conversation,
          ai_response |-> "", intent |-> ""]
    ELSE [exc |-> "",
          conversation |-> Append(conversation, Message("assistant", strip(completed))),
          ai_response |-> strip(completed),
          intent |-> intent]

\* the messages stored over all call identifiers
StoredMessages == Len(conversation_state["CA1"]) + Len(conversation_state["CA2"])

\* POST /process_speech served by request thread t, up to the wait in the
\* intent completion (line 52): the 400 answer (lines 239-244), or lines 66-67.
\* conversation_state.get(call_sid, []) hands out the stored list itself when
\* the key is present (the thread's conversation is then the stored list:
\* aliased) and a fresh list of its own when it is absent; the user message is
\* appended to that list in place.  A stored list is never empty, so the empty
\* sequence stands for an absent key.
SpeechBegin(t, call_sid, speech_result) ==
    /\ up[MainProc]
    /\ turn[t].pc = "idle"
    /\ IF call_sid = "" \/ speech_result = ""
       THEN /\ reply' = [NoReply EXCEPT !.status = 400, !.error = "Invalid request"]
            /\ UNCHANGED <<conversation_state, turn>>
       ELSE LET stored == conversation_state[call_sid]
                present == stored # <<>>
                user == Message("user", speech_result)
            IN /\ StoredMessages < MaxHistory
               /\ conversation_state' =
                      IF present
                      THEN [conversation_state EXCEPT ![call_sid] = Append(stored, user)]
                      ELSE conversation_state
               /\ turn' = [turn EXCEPT ![t] =
                              [NoTurn EXCEPT
                                  !.pc = "wait", !.call_sid = call_sid,
                                  !.speech_result = speech_result, !.aliased = present,
                                  !.conversation = IF present THEN <<>> ELSE <<user>>]]
               /\ reply' = reply
    /\ UNCHANGED <<now, up, meetings, file, last, ncalls, owner, pc, loc, got, boot>>

\* The intent completion has answered (detect_intent, called at line 68).
\* An exception leaves get_ai_response and process_speech: the answer is a
\* 500.  Otherwise the thread builds the prompt (lines 69-73), sends the reply
\* request and waits again, in completions.create of line 74.
SpeechIntent(t, detected) ==
    /\ turn[t].pc = "wait"
    /\ LET d == detect_intent(detected) IN
       IF d.exc # ""
       THEN /\ reply' = [NoReply EXCEPT !.status = 500, !.error = d.exc]
            /\ turn' = [turn EXCEPT ![t] = NoTurn]
       ELSE /\ reply' = reply
            /\ turn' = [turn EXCEPT ![t].pc = "reply", ![t].intent = d.intent]
    /\ UNCHANGED <<now, up, meetings, file, last, ncalls, owner, pc, loc, got,
                   conversation_state, boot>>

\* The reply completion has answered (lines 74-84).  An exception leaves
\* get_ai_response and process_speech: the answer is a 500.  Otherwise the
\* assistant message is appended to the thread's list and line 80 stores that
\* list under the key; a thread whose list was the one stored until then
\* keeps that list, which is no longer the stored one.  The request then
\* waits for generate_speech (line 247).
SpeechStore(t, completed) ==
    /\ turn[t].pc = "reply"
    /\ LET call_sid == turn[t].call_sid
           conversation == IF turn[t].aliased THEN conversation_state[call_sid]
                           ELSE turn[t].conversation
           r == get_ai_response(conversation, turn[t].intent, completed)
       IN IF r.exc # ""
          THEN /\ reply' = [NoReply EXCEPT !.status = 500, !.error = r.exc]
               /\ turn' = [turn EXCEPT ![t] = NoTurn]
               /\ UNCHANGED conversation_state
          ELSE /\ conversation_state' =
                      [conversation_state EXCEPT ![call_sid] = r.conversation]
               /\ turn' = [u \in Threads |->
                              IF u = t
                              THEN [NoTurn EXCEPT
                                       !.pc = "speak", !.call_sid = call_sid,
                                       !.speech_result = turn[t].speech_result,
                                       !.ai_response = r.ai_response,
                                       !.intent = r.intent]
                              ELSE IF /\ ~turn[t].aliased
                                      /\ turn[u].pc \in {"wait", "reply"}
                                      /\ turn[u].aliased
                                      /\ turn[u].call_sid = call_sid
                                   THEN [turn[u] EXCEPT
                                            !.aliased = FALSE,
                                            !.conversation = conversation_state[call_sid]]
                                   ELSE turn[u]]
               /\ reply' = reply
    /\ UNCHANGED <<now, up, meetings, file, last, ncalls, owner, pc, loc, got, boot>>

\* How lines 247-257 can end: generate_speech returned content, which was
\* written to temp_audio.mp3 ("content"); it returned None, or no content
\* ("none"); writing temp_audio.mp3 raised OSError ("oserror").
AudioOutcomes == {"content", "none", "oserror"}

\* process_speech from line 247 on: the text-to-speech request has answered
\* and the response is sent.  The turn is stored already.
SpeechRespond(t, audio) ==
    /\ turn[t].pc = "speak"
    /\ reply' = IF audio = "oserror"
                THEN [NoReply EXCEPT !.status = 500, !.error = "OSError"]
                ELSE [status |-> 200, error |-> "", play |-> (audio = "content"),
                      say |-> turn[t].ai_response, intent |-> turn[t].intent]
    /\ turn' = [turn EXCEPT ![t] = NoTurn]
    /\ UNCHANGED <<now, up, meetings, file, last, ncalls, owner, pc, loc, got,
                   conversation_state, boot>>

NextChat ==
    \/ Startup(MainProc, "ok")
    \/ \E t \in Threads, call_sid \in CallSids \cup {""}, speech_result \in Texts \cup {""} :
            SpeechBegin(t, call_sid, speech_result)
    \/ \E t \in Threads, detected \in IntentOutcomes : SpeechIntent(t, detected)
    \/ \E t \in Threads, completed \in Completions : SpeechStore(t, completed)
    \/ \E t \in Threads, audio \in AudioOutcomes : SpeechRespond(t, audio)

SpecChat == Init /\ [][NextChat]_vars

----------------------------------------------------------------------------
(* Vocabulary of the properties.  Times are read off the stored ISO strings *)
(* and off the request, independently of the scheduler's own helpers.       *)

Store == meetings[MainProc]

IsoMinutes(s) == s.date * 1440 + s.hh * 60 + s.mm - s.tz[1]
MStart(m) == IsoMinutes(m.start)
MEnd(m) == IsoMinutes(m.end)

HourOf(t) == (t % 1440) \div 60
DayOfWeek(t) == (t \div 1440) % 7

Max2(a, b) == IF a >= b THEN a ELSE b
Min2(a, b) == IF a <= b THEN a ELSE b

\* the half-open intervals [s1, e1) and [s2, e2) share an instant
IntervalsOverlap(s1, e1, s2, e2) == Max2(s1, s2) < Min2(e1, e2)

\* the overlap test of the conflict detector's contract
OverlapTest(s, e, m) == s < MEnd(m) /\ e > MStart(m)

\* The last call carried a candidate slot: a title and a well-formed naive
\* start string, read as wall-clock time in UTC.
NoCallInProgress == pc[MainThread] = "idle"

HasSlot ==
    /\ last.called
    /\ NoCallInProgress
    /\ {"title", "datetime"} \subseteq last.details.keys
    /\ last.details.datetime.kind = "iso"
    /\ last.details.datetime.tz = Naive

SlotStart ==
    LET s == last.details.datetime IN s.date * 1440 + s.hh * 60 + s.mm

SlotDuration ==
    IF "duration" \in last.details.keys THEN last.details.duration ELSE 60

SlotEnd == SlotStart + SlotDuration

RuleNotice == SlotStart >= last.at + 60
RuleHorizon == SlotStart <= last.at + 60 * 1440
RuleStartHour == 9 <= HourOf(SlotStart) /\ HourOf(SlotStart) < 17
RuleEndHour == HourOf(SlotEnd) < 17
RuleWeekday == DayOfWeek(SlotStart) \notin {5, 6}

AllRules == RuleNotice /\ RuleHorizon /\ RuleStartHour /\ RuleEndHour /\ RuleWeekday

FirstViolated ==
    IF ~RuleNotice THEN MsgNotice
    ELSE IF ~RuleHorizon THEN MsgHorizon
    ELSE IF ~RuleStartHour THEN MsgHours
    ELSE IF ~RuleEndHour THEN MsgEnd
    ELSE IF ~RuleWeekday THEN MsgWeekend
    ELSE MsgValid

SlotOverlapsStored == \E i \in 1..Len(last.pre) : OverlapTest(SlotStart, SlotEnd, last.pre[i])

Failure(message) == [success |-> FALSE, message |-> message, at |-> <<>>, error |-> ""]

----------------------------------------------------------------------------
\* C1: after any sequence of schedule calls run one at a time by a single
\* process, no two distinct meetings of the store have overlapping half-open
\* intervals [start, end).
C1_NoOverlap ==
    \A i, j \in 1..Len(Store) :
        i < j => ~IntervalsOverlap(MStart(Store[i]), MEnd(Store[i]),
                                   MStart(Store[j]), MEnd(Store[j]))

\* two meetings of positive length are stored, the second one touching the first
C1_Witness ==
    /\ Len(Store) = 2
    /\ MEnd(Store[1]) > MStart(Store[1])
    /\ MEnd(Store[2]) > MStart(Store[2])
    /\ MStart(Store[1]) = MEnd(Store[2])

\* C2: a candidate slot on a weekday, with start hour in [9,17) and end hour
\* < 17, at least 1 hour and at most 60 days after now, that overlaps no stored
\* meeting is scheduled: success = true and the store grows by exactly one.
C2_ValidSlotSucceeds ==
    (HasSlot /\ AllRules /\ ~SlotOverlapsStored)
        => /\ last.ret.success
           /\ last.ret.message = MsgScheduled
           /\ last.ret.at = <<SlotStart \div 1440, HourOf(SlotStart), SlotStart % 60>>
           /\ Len(Store) = Len(last.pre) + 1

\* a valid slot was booked into a store that already held a meeting
C2_Witness ==
    /\ HasSlot /\ AllRules /\ ~SlotOverlapsStored
    /\ Len(last.pre) = 1
    /\ SlotEnd > SlotStart
    /\ last.ret.success

\* C3: every schedule call that returns success = false leaves the store's
\* sequence of meetings exactly as it was before the call.
C3_FailureLeavesStore ==
    (last.called /\ NoCallInProgress /\ ~last.ret.success) => Store = last.pre

\* C4: whenever no schedule call is in progress, the durable storage holds
\* exactly the in-memory store's ordered sequence of meetings.
C4_WriteThrough ==
    (up[MainProc] /\ NoCallInProgress) => file = Json(Store)

\* C5: schedule never lets a failure escape: an unparsable datetime, a missing
\* title or datetime field, a rule violation, a conflict or a storage error
\* during the call each yield a (false, message) pair.
C5_NoEscape ==
    (last.called /\ NoCallInProgress) =>
        /\ last.exc = ""
        /\ (~last.ret.success => last.ret.message # "")
        /\ (~({"title", "datetime"} \subseteq last.details.keys)
                => last.ret = [success |-> FALSE, message |-> MsgFailed,
                               at |-> <<>>, error |-> "KeyError"])
        /\ ({"title", "datetime"} \subseteq last.details.keys
              /\ last.details.datetime.kind = "bad"
                => last.ret = [success |-> FALSE, message |-> MsgFailed,
                               at |-> <<>>, error |-> "ValueError"])
        /\ (file # last.prefile /\ file # Json(Store)
                => ~last.ret.success /\ last.ret.message = MsgFailed)

\* a storage write failed during the call and the call returned a failure pair
C5_Witness ==
    /\ last.called
    /\ file = Corrupt
    /\ last.exc = ""
    /\ last.ret = [success |-> FALSE, message |-> MsgFailed, at |-> <<>>, error |-> "TypeError"]

\* C6: the validator accepts a slot iff all five rules hold, and the reason
\* returned by validate and by schedule is that of the first violated rule in
\* the order notice, horizon, start hour, end hour, weekend.
C6_ValidatorRules ==
    HasSlot =>
        LET verdict == is_valid_meeting_time(DateTime(SlotStart, UTC),
                                             DateTime(SlotEnd, UTC), last.at)
        IN /\ verdict[1] <=> AllRules
           /\ verdict[2] = FirstViolated
           /\ ~AllRules => last.ret = Failure(FirstViolated)
           /\ AllRules => last.ret.message \notin
                             {MsgNotice, MsgHorizon, MsgHours, MsgEnd, MsgWeekend}

\* a weekend slot outside business hours: two rules violated, the earlier one reported
C6_Witness ==
    /\ HasSlot
    /\ RuleNotice /\ RuleHorizon /\ ~RuleStartHour /\ ~RuleWeekday
    /\ last.ret = Failure(MsgHours)

\* C7: the conflict detector returns true iff some stored meeting m has
\* start < m.end and end > m.start; an otherwise valid slot that overlaps a
\* stored meeting fails with exactly "Time slot is not available", and one
\* that only touches a stored meeting's boundary succeeds.
C7_ConflictDetector ==
    HasSlot =>
        /\ check_conflicts(last.pre, DateTime(SlotStart, UTC), DateTime(SlotEnd, UTC))
              <=> SlotOverlapsStored
        /\ (AllRules /\ SlotOverlapsStored) => last.ret = Failure(MsgConflict)
        /\ (AllRules /\ ~SlotOverlapsStored) => last.ret.success

\* [10:30, 11:30) is refused after [10:00, 11:00) was booked
C7_Witness ==
    /\ HasSlot /\ AllRules
    /\ Len(last.pre) = 1
    /\ MStart(last.pre[1]) = 10 * 60 /\ MEnd(last.pre[1]) = 11 * 60
    /\ SlotStart = 10 * 60 + 30 /\ SlotEnd = 11 * 60 + 30
    /\ last.ret = Failure(MsgConflict)

\* [11:00, 12:00) is booked after [10:00, 11:00): touching is no conflict
C7_TouchingReached ==
    /\ HasSlot /\ AllRules
    /\ Len(last.pre) = 1
    /\ MStart(last.pre[1]) = 10 * 60 /\ MEnd(last.pre[1]) = 11 * 60
    /\ SlotStart = 11 * 60 /\ SlotEnd = 12 * 60
    /\ last.ret.success

\* C9: every meeting in the store satisfies end > start, whatever duration
\* argument the schedule calls were given.
C9_EndAfterStart ==
    \A i \in 1..Len(Store) : MEnd(Store[i]) > MStart(Store[i])

\* C10 as stated: every slot whose start falls on Saturday or Sunday fails
\* with the weekend message.
C10_WeekendMessage ==
    (HasSlot /\ ~RuleWeekday) => last.ret = Failure(MsgWeekend)

\* C10 amended: every slot whose start falls on Saturday or Sunday fails and
\* leaves the store unchanged; the message is the weekend message when the
\* slot passes the four earlier rules (notice, horizon, start hour, end hour),
\* and otherwise that of the first earlier rule it violates.
C10_WeekendRejected ==
    (HasSlot /\ ~RuleWeekday) =>
        /\ ~last.ret.success
        /\ Store = last.pre
        /\ last.ret = Failure(FirstViolated)
        /\ (RuleNotice /\ RuleHorizon /\ RuleStartHour /\ RuleEndHour)
              => last.ret = Failure(MsgWeekend)

\* a Saturday slot inside business hours is refused with the weekend message
C10_Witness ==
    /\ HasSlot /\ ~RuleWeekday
    /\ RuleNotice /\ RuleHorizon /\ RuleStartHour /\ RuleEndHour
    /\ last.ret = Failure(MsgWeekend)


\* C8: with no locking, two concurrent schedule calls for overlapping slots
\* (two threads sharing the in-memory store, or two processes sharing the
\* file) can both pass the conflict check before either appends, and then
\* both return success and both meetings stay booked: a call that has passed
\* the check is never checked again, it appends to its process's store and
\* returns success whatever the other call has done meanwhile.
Booked(t) ==
    \E i \in 1..Len(meetings[owner[t]]) : meetings[owner[t]][i] = thread_meeting(t)

C8_PassedCheckBooks ==
    \A t \in Threads :
        /\ (pc[t] \in {"append", "save", "dump", "flush"}
                \/ (pc[t] = "done" /\ loc[t].ret.success))
              <=> loc[t].passed
        /\ (loc[t].passed /\ pc[t] \in {"save", "dump", "flush", "done"}) => Booked(t)
        /\ (loc[t].passed /\ pc[t] = "done") => loc[t].ret.success

\* two threads of one process have both returned success for overlapping
\* slots, and the shared store and the file hold both meetings
C8_Witness ==
    /\ owner[1] = owner[2]
    /\ pc[1] = "done" /\ pc[2] = "done"
    /\ loc[1].ret.success /\ loc[2].ret.success
    /\ IntervalsOverlap(Instant(loc[1].start_datetime), Instant(loc[1].end_datetime),
                        Instant(loc[2].start_datetime), Instant(loc[2].end_datetime))
    /\ Booked(1) /\ Booked(2)
    /\ file = Json(meetings[owner[1]])
    /\ Len(meetings[owner[1]]) = 2

\* two processes have both returned success for overlapping slots
C8_ProcessesReached ==
    /\ owner[1] # owner[2]
    /\ pc[1] = "done" /\ pc[2] = "done"
    /\ loc[1].ret.success /\ loc[2].ret.success
    /\ IntervalsOverlap(Instant(loc[1].start_datetime), Instant(loc[1].end_datetime),
                        Instant(loc[2].start_datetime), Instant(loc[2].end_datetime))

\* C11 as stated: every slot whose end has hour >= 17 fails with the
\* extends-beyond message.
C11_EndHourMessage ==
    (HasSlot /\ ~RuleEndHour) => last.ret = Failure(MsgEnd)

\* C11 amended: every slot whose end has hour >= 17 fails and leaves the
\* store unchanged; the message is the extends-beyond message when the slot
\* passes the three earlier rules (notice, horizon, start hour), and otherwise
\* that of the first earlier rule it violates.
C11_EndHourRejected ==
    (HasSlot /\ ~RuleEndHour) =>
        /\ ~last.ret.success
        /\ Store = last.pre
        /\ last.ret = Failure(FirstViolated)
        /\ (RuleNotice /\ RuleHorizon /\ RuleStartHour) => last.ret = Failure(MsgEnd)

\* a 16:30 slot of 30 minutes ends at 17:00 and is refused with the
\* extends-beyond message
C11_Witness ==
    /\ HasSlot /\ ~RuleEndHour
    /\ RuleNotice /\ RuleHorizon /\ RuleStartHour
    /\ HourOf(SlotEnd) = 17 /\ SlotEnd % 60 = 0
    /\ last.ret = Failure(MsgEnd)

\* C12: for every store reachable through schedule calls, persisting it and
\* reloading it yields an identical ordered sequence of meetings, every field
\* of every meeting equal: a process started again on the file its earlier
\* run wrote holds the store that run held.
C12_RoundTrip ==
    [][Restart(MainProc) =>
          /\ up'[MainProc]
          /\ Len(meetings'[MainProc]) = Len(meetings[MainProc])
          /\ \A i \in 1..Len(meetings[MainProc]) :
                /\ meetings'[MainProc][i].summary = meetings[MainProc][i].summary
                /\ meetings'[MainProc][i].start = meetings[MainProc][i].start
                /\ meetings'[MainProc][i].end = meetings[MainProc][i].end
                /\ meetings'[MainProc][i].attendees = meetings[MainProc][i].attendees
                /\ DOMAIN meetings'[MainProc][i] = DOMAIN meetings[MainProc][i]]_vars

\* a process started again holds a store of two meetings, one of them with an
\* attendee, read from the file
C12_Witness ==
    /\ up[MainProc]
    /\ boot[MainProc] = "again"
    /\ Len(Store) = 2
    /\ \E i \in 1..2 : Store[i].attendees # <<>>
    /\ file = Json(Store)

\* C13: GET /meetings is read-only: it changes neither the in-memory store
\* nor the durable storage, and it returns the store's current ordered
\* sequence of meetings.
C13_ListReadOnly ==
    [][GetMeetings(MainProc) =>
          /\ meetings' = meetings
          /\ file' = file
          /\ got'.status = 200
          /\ got'.body = meetings'[MainProc]]_vars

\* a is an initial segment of b
IsPrefix(a, b) == Len(a) <= Len(b) /\ SubSeq(b, 1, Len(a)) = a

\* the ISO string of wall-clock minute t in UTC
UtcIso(t) == [kind |-> "iso", date |-> t \div 1440, hh |-> HourOf(t), mm |-> t % 60, tz |-> <<0>>]

\* the record a request with a naive start string is to be stored as
RequestedMeeting(d) ==
    LET start == d.datetime.date * 1440 + d.datetime.hh * 60 + d.datetime.mm
        duration == IF "duration" \in d.keys THEN d.duration ELSE 60
    IN [summary |-> d.title,
        start |-> UtcIso(start),
        end |-> UtcIso(start + duration),
        attendees |-> IF "attendees" \in d.keys THEN d.attendees ELSE <<>>]

\* C14: the store is append-only: a successful schedule call produces exactly
\* the previous sequence followed by one new meeting whose start is the parsed
\* start, whose end is start + duration and whose summary and attendees are
\* the ones supplied; no step removes, reorders or modifies a stored meeting.
C14_AppendOnly ==
    [][/\ up[MainProc] => IsPrefix(meetings[MainProc], meetings'[MainProc])
       /\ \A d \in Requests :
            (Schedule(MainProc, d, "ok") /\ meetings' # meetings) =>
                /\ Len(meetings'[MainProc]) = Len(meetings[MainProc]) + 1
                /\ d.datetime.tz = Naive =>
                      meetings'[MainProc] = Append(meetings[MainProc], RequestedMeeting(d))
       /\ (ScheduleReturn(MainProc, "ok") /\ last'.ret.success) =>
                /\ meetings' = meetings
                /\ Len(meetings'[MainProc]) = Len(last'.pre) + 1
                /\ IsPrefix(last'.pre, meetings'[MainProc])
                /\ last'.details.datetime.tz = Naive =>
                      meetings'[MainProc] = Append(last'.pre, RequestedMeeting(last'.details))]_vars

\* a meeting with an attendee was appended behind an earlier meeting, which
\* stayed first
C14_Witness ==
    /\ last.called /\ last.ret.success
    /\ Len(last.pre) = 1 /\ Len(Store) = 2
    /\ Store[1] = last.pre[1]
    /\ Store[2].attendees = <<"ann">> /\ Store[2].summary = "Demo"
    /\ MEnd(Store[2]) = MStart(Store[2]) + 30

\* the instant a start string denotes: its wall-clock time in UTC when it is
\* naive, its wall-clock time less its offset when it carries one
DenotedInstant(s) ==
    IF s.tz = Naive THEN s.date * 1440 + s.hh * 60 + s.mm
    ELSE s.date * 1440 + s.hh * 60 + s.mm - s.tz[1]

\* C15: schedule attaches UTC only to a naive start string; a string that
\* carries its own UTC offset keeps the instant it denotes when it is
\* validated, conflict-checked and stored.
C15_InstantKept ==
    (/\ last.called
     /\ NoCallInProgress
     /\ {"title", "datetime"} \subseteq last.details.keys
     /\ last.details.datetime.kind = "iso"
     /\ last.ret.success)
        => /\ Len(Store) = Len(last.pre) + 1
           /\ MStart(Store[Len(Store)]) = DenotedInstant(last.details.datetime)

\* C16: every accepted meeting lies wholly inside the business hours of one
\* weekday: start and end fall on the same Monday-Friday calendar day, the
\* start at or after 09:00 and the end before 17:00, whatever the duration.
C16_InsideBusinessDay ==
    \A i \in 1..Len(Store) :
        LET s == MStart(Store[i])
            e == MEnd(Store[i])
        IN  /\ s \div 1440 = e \div 1440
            /\ DayOfWeek(s) \in 0..4
            /\ s % 1440 >= 9 * 60
            /\ e % 1440 < 17 * 60

\* the meeting of thread t's call is in the storage file
InFile(t) ==
    /\ file # Missing
    /\ ~Unreadable(file)
    /\ \E i \in 1..Len(file[2]) : json_load_meeting(file[2][i]) = thread_meeting(t)

\* C17: durability of acknowledged bookings: once a schedule call has
\* returned success its meeting is in the storage file in every later state,
\* also when several worker processes, each loading the file once at startup
\* and rewriting the whole file on every mutation, share that file.
C17_AcknowledgedDurable ==
    \A t \in Threads : (pc[t] = "done" /\ loc[t].ret.success) => InFile(t)

\* a stored history alternates user and assistant messages, starting with a
\* user message and ending with an assistant message
Alternating(h) ==
    /\ Len(h) % 2 = 0
    /\ \A i \in 1..Len(h) : h[i].role = IF i % 2 = 1 THEN "user" ELSE "assistant"

\* no thread is inside get_ai_response
NoTurnInProgress == \A t \in Threads : turn[t].pc \notin {"wait", "reply"}

\* C18: after any sequence of get_ai_response turns, successful or failed
\* with an AI error, on any call identifiers, the stored history of each call
\* is a sequence of strictly alternating user/assistant messages that begins
\* with a user message and ends with an assistant message.
C18_HistoryAlternates ==
    NoTurnInProgress => \A c \in CallSids : Alternating(conversation_state[c])

\* C18, second half: a turn on one call identifier leaves the history stored
\* for every other call identifier as it was.
C18_OtherCallsUntouched ==
    [][\A c \in CallSids :
          (\/ \E t \in Threads, s \in Texts : SpeechBegin(t, c, s)
           \/ \E t \in Threads, d \in IntentOutcomes :
                 turn[t].call_sid = c /\ SpeechIntent(t, d)
           \/ \E t \in Threads, k \in Completions :
                 turn[t].call_sid = c /\ SpeechStore(t, k)
           \/ \E t \in Threads, a \in AudioOutcomes :
                 turn[t].call_sid = c /\ SpeechRespond(t, a))
              => \A o \in CallSids \ {c} : conversation_state'[o] = conversation_state[o]]_vars

\* a turn has failed with an AI error and, with no request being served any
\* more, a user message stands at the end of that call's history while the
\* other call holds a history of its own
C18_FailedTurnReached ==
    /\ \A t \in Threads : turn[t].pc = "idle"
    /\ reply.status = 500 /\ reply.error = "AttributeError"
    /\ \E c \in CallSids, o \in CallSids :
        /\ c # o
        /\ Len(conversation_state[c]) = 3
        /\ conversation_state[c][3].role = "user"
        /\ Len(conversation_state[o]) = 2

\* two overlapping requests on one call identifier have both stored their
\* turn and the history holds one turn only
C18_LostTurnReached ==
    /\ turn[1].pc = "speak" /\ turn[2].pc = "speak"
    /\ turn[1].call_sid = turn[2].call_sid
    /\ turn[1].speech_result # turn[2].speech_result
    /\ Len(conversation_state[turn[1].call_sid]) = 2

\* the turn is stored and the response is still to be sent
C18_StoredBeforeReply ==
    \E t \in Threads :
        /\ turn[t].pc = "speak"
        /\ Len(conversation_state[turn[t].call_sid]) = 2
        /\ conversation_state[turn[t].call_sid][2].role = "assistant"
        /\ reply = NoReply

\* two calls of one process have both returned success and the file is no
\* JSON document: the shorter text of the first was written over the longer
\* text of the second
C17_TornFileReached ==
    /\ owner[1] = owner[2]
    /\ pc[1] = "done" /\ pc[2] = "done"
    /\ loc[1].ret.success /\ loc[2].ret.success
    /\ ~up[2]
    /\ file = Torn(2)

\* a process that found no file wrote its empty list over an acknowledged
\* booking of the other process
C17_StartupWipeReached ==
    /\ up[1] /\ up[2]
    /\ \E t \in Threads : pc[t] = "done" /\ loc[t].ret.success /\ Len(meetings[owner[t]]) = 1
    /\ file = Json(<<>>)

====
